---- MODULE Spec2Model ----
(***************************************************************************)
(* The command handler nodejsSnippets.createApiStructure of the extension  *)
(* (src/extension.ts) and its compiled form (dist/extension.js), run by    *)
(* the host against a workspace file system.                               *)
(*                                                                         *)
(* The handler is an async function: the code between two awaits runs      *)
(* without interruption, so one action is one such segment: the host       *)
(* settles the awaited file-system call and the handler runs on to the     *)
(* next await (or to its return / throw).  Several invocations may be in   *)
(* flight; their segments interleave at the awaits.                        *)
(***************************************************************************)
EXTENDS Integers, Sequences, FiniteSets, TLC

(* ------------------------------ bounds --------------------------------- *)

\* number of invocations of the command in one behaviour
MaxInvocations == 2

Invocations == 1 .. MaxInvocations

(* --------------------------- program text ------------------------------ *)

\* the folder list with its first two entries swapped
folders_swapped ==
  << "src/routes", "src/controllers", "src/services",
     "src/models", "src/middlewares", "src/utils" >>

folders ==
  << "src/controllers", "src/routes", "src/services",
     "src/models", "src/middlewares", "src/utils" >>

appJsPath == "src/app.js"

packJsonPath == "src/package.json"

packJsonContent ==
  "\n          {\n  \"name\": \"node-js snippets\",\n  \"version\": \"1.0.0\",\n  \"description\": \"\",\n  \"main\": \"src/app.js\",\n  \"scripts\": {\n    \"test\": \"echo \\\"Error: no test specified\\\" && exit 1\"\n  },\n  \"keywords\": [],\n  \"author\": \"\",\n  \"license\": \"ISC\"\n}\n          "

appJsContent ==
  "import express from 'express';\nconst app = express();\n\napp.use(express.json());\n\n\n"

distAppJsContent ==
  "const express = require('express');\nconst app = express();\n\napp.use(express.json());\n\nmodule.exports = app;\n"

errorMessage == "Please open a folder first"

successMessage == "Node.js API structure created successfully"

(* --------------------------- environment ------------------------------- *)

\* the value of vscode.workspace.workspaceFolders when no workspace is open
\* (a value that is no list of roots)
undefined == << "undefined" >>

Roots == { "/tmp/proj", "/tmp/other" }

\* vscode.workspace.workspaceFolders: undefined, or a list of distinct roots
WorkspaceFolderLists ==
  { undefined } \cup
  { ws \in UNION { [1 .. n -> Roots] : n \in 0 .. Cardinality(Roots) } :
      \A a, b \in DOMAIN ws : a # b => ws[a] # ws[b] }

\* a path of the workspace that the handler never names
otherPath == "README.md"

FolderPaths == { folders[k] : k \in DOMAIN folders }

RelPaths == FolderPaths \cup { appJsPath, packJsonPath, otherPath }

\* vscode.Uri.joinPath(rootUri, rel)
joinPath(rootUri, rel) == << rootUri, rel >>

Uris == { joinPath(r, p) : r \in Roots, p \in RelPaths }

userContent == "// written by the user\n"

Absent == << "absent" >>

Dir == << "dir" >>

File(content) == << "file", content >>

Entries ==
  { Absent, Dir } \cup
  { File(c) : c \in { userContent, appJsContent, packJsonContent, distAppJsContent } }

\* what may lie at a path before the first invocation
InitialEntries(uri) ==
  { Absent, Dir, File(userContent) } \cup
  ( IF uri[2] = appJsPath THEN { File(appJsContent) } ELSE {} ) \cup
  ( IF uri[2] = packJsonPath THEN { File(packJsonContent) } ELSE {} )

EmptyFileSystem == [u \in Uris |-> Absent]

\* /tmp/other holds an app.js of the user's
OtherProject ==
  [EmptyFileSystem EXCEPT ![joinPath("/tmp/other", appJsPath)] = File(userContent)]

\* before the first invocation /tmp/proj is empty, or holds one entry
InitialFileSystems ==
  { OtherProject } \cup
  UNION { { [OtherProject EXCEPT ![u] = e] : e \in InitialEntries(u) }
          : u \in { v \in Uris : v[1] = "/tmp/proj" } }

(* ------------------------------- state --------------------------------- *)

VARIABLES
  workspaceFolders,  \* vscode.workspace.workspaceFolders
  fs,                \* the file system behind vscode.workspace.fs
  fs0,               \* the file system before the first invocation
  pc,                \* per invocation: where the handler is suspended
  rootUri,           \* per invocation: the local rootUri
  folderIdx,         \* per invocation: position of the for-of loop
  outcome,           \* per invocation: how the handler ended
  trace,             \* per invocation: calls issued, settled, messages shown
  afterSuccess,      \* per invocation: invoked after an invocation succeeded
  fsAfterFirst       \* the file system when the first invocation succeeded

vars ==
  << workspaceFolders, fs, fs0, pc, rootUri, folderIdx, outcome, trace,
     afterSuccess, fsAfterFirst >>

NoRoot == "none"

\* fsAfterFirst while no invocation has succeeded
NoFileSystem == [u \in Uris |-> << "unknown" >>]

(* ----------------------- the host file system -------------------------- *)

\* createDirectory refused on whatever exists at the path
DirectoryConflict_exclusive(f, uri) == f[uri][1] # "absent"

\* createDirectory is refused when a file lies at the path
DirectoryConflict(f, uri) == f[uri][1] = "file"

\* writeFile refused on whatever exists at the path
FileConflict_exclusive(f, uri) == f[uri][1] # "absent"

\* writeFile is refused when a directory lies at the path
FileConflict(f, uri) == f[uri][1] = "dir"

\* vscode.workspace.fs.createDirectory(uri): no-op on an existing directory
createDirectory(f, uri) == [f EXCEPT ![uri] = Dir]

\* writeFile that keeps a file that is there already
writeFile_keep(f, uri, content) ==
  IF f[uri][1] = "file" THEN f ELSE [f EXCEPT ![uri] = File(content)]

\* vscode.workspace.fs.writeFile(uri, content): replaces the content
writeFile(f, uri, content) == [f EXCEPT ![uri] = File(content)]

(* ----------------------------- trace events ---------------------------- *)

Issue(op, uri) == << "issue", op, uri >>

Settled(op, uri) == << "settled", op, uri >>

Rejected(op, uri, cause) == << "rejected", op, uri, cause >>

Shown(kind, text) == << "show", kind, text >>

(* ------------------------------ actions -------------------------------- *)

Init ==
  /\ workspaceFolders \in WorkspaceFolderLists
  /\ fs0 \in InitialFileSystems
  /\ fs = fs0
  /\ pc = [i \in Invocations |-> "NotStarted"]
  /\ rootUri = [i \in Invocations |-> NoRoot]
  /\ folderIdx = [i \in Invocations |-> 0]
  /\ outcome = [i \in Invocations |-> "none"]
  /\ trace = [i \in Invocations |-> << >>]
  /\ afterSuccess = [i \in Invocations |-> FALSE]
  /\ fsAfterFirst = NoFileSystem

\* the last root in place of the first
FirstRoot_last(ws) == ws[Len(ws)]

\* workspaceFolders[0].uri
FirstRoot(ws) == ws[1]

\* the command is invoked: the handler runs from its first line to its
\* first await (or to its return / throw)
Invoke(i) ==
  /\ pc[i] = "NotStarted"
  /\ afterSuccess' =
       [afterSuccess EXCEPT ![i] = \E j \in Invocations : outcome[j] = "success"]
  /\ IF workspaceFolders = undefined
       THEN \* if (!workspaceFolders) { showErrorMessage(...); return; }
            /\ trace' = [trace EXCEPT ![i] = << Shown("error", errorMessage) >>]
            /\ pc' = [pc EXCEPT ![i] = "Idle"]
            /\ outcome' = [outcome EXCEPT ![i] = "NoWorkspaceOpen"]
            /\ UNCHANGED << rootUri, folderIdx >>
       ELSE IF Len(workspaceFolders) = 0
       THEN \* [] is truthy; workspaceFolders[0] is undefined and .uri throws
            /\ pc' = [pc EXCEPT ![i] = "Idle"]
            /\ outcome' = [outcome EXCEPT ![i] = "TypeError"]
            /\ UNCHANGED << rootUri, folderIdx, trace >>
       ELSE /\ rootUri' = [rootUri EXCEPT ![i] = FirstRoot(workspaceFolders)]
            /\ folderIdx' = [folderIdx EXCEPT ![i] = 1]
            /\ trace' = [trace EXCEPT ![i] =
                 << Issue("createDirectory",
                          joinPath(FirstRoot(workspaceFolders), folders[1])) >>]
            /\ pc' = [pc EXCEPT ![i] = "createDirectory"]
            /\ UNCHANGED outcome
  /\ UNCHANGED << workspaceFolders, fs, fs0, fsAfterFirst >>

\* the uri of the call invocation i is awaiting
PendingUri(i) ==
  CASE pc[i] = "createDirectory" -> joinPath(rootUri[i], folders[folderIdx[i]])
    [] pc[i] = "writePackJson"   -> joinPath(rootUri[i], packJsonPath)
    [] pc[i] = "writeAppJs"      -> joinPath(rootUri[i], appJsPath)

PendingOp(i) == IF pc[i] = "createDirectory" THEN "createDirectory" ELSE "writeFile"

\* the awaited createDirectory resolves; the loop goes on, and after the
\* last folder the handler issues the write that follows the loop
ResolveCreateDirectory(i, afterLoopPc, afterLoopPath) ==
  /\ pc[i] = "createDirectory"
  /\ LET uri == PendingUri(i) IN
       /\ ~ DirectoryConflict(fs, uri)
       /\ fs' = createDirectory(fs, uri)
       /\ IF folderIdx[i] < Len(folders)
            THEN /\ folderIdx' = [folderIdx EXCEPT ![i] = @ + 1]
                 /\ trace' = [trace EXCEPT ![i] =
                      @ \o << Settled("createDirectory", uri),
                              Issue("createDirectory",
                                    joinPath(rootUri[i], folders[folderIdx[i] + 1])) >>]
                 /\ pc' = pc
            ELSE /\ folderIdx' = folderIdx
                 /\ trace' = [trace EXCEPT ![i] =
                      @ \o << Settled("createDirectory", uri),
                              Issue("writeFile", joinPath(rootUri[i], afterLoopPath)) >>]
                 /\ pc' = [pc EXCEPT ![i] = afterLoopPc]
  /\ UNCHANGED << workspaceFolders, fs0, rootUri, outcome, afterSuccess,
                  fsAfterFirst >>

\* the awaited writeFile(appJs, ...) resolves; the handler shows the
\* success message and returns
ResolveWriteAppJs(i, content) ==
  /\ pc[i] = "writeAppJs"
  /\ LET uri == PendingUri(i) IN
       /\ ~ FileConflict(fs, uri)
       /\ fs' = writeFile(fs, uri, content)
       /\ trace' = [trace EXCEPT ![i] =
            @ \o << Settled("writeFile", uri), Shown("information", successMessage) >>]
       /\ pc' = [pc EXCEPT ![i] = "Idle"]
       /\ outcome' = [outcome EXCEPT ![i] = "success"]
       /\ fsAfterFirst' =
            IF fsAfterFirst = NoFileSystem THEN fs' ELSE fsAfterFirst
  /\ UNCHANGED << workspaceFolders, fs0, rootUri, folderIdx, afterSuccess >>

\* src/extension.ts: the for-of loop, then writeFile(packJson, ...)
CreateDirectoryResolved(i) ==
  ResolveCreateDirectory(i, "writePackJson", packJsonPath)

\* src/extension.ts: the awaited writeFile(packJson, ...) resolves; the
\* handler issues the write of app.js
WritePackJsonResolved(i) ==
  /\ pc[i] = "writePackJson"
  /\ LET uri == PendingUri(i) IN
       /\ ~ FileConflict(fs, uri)
       /\ fs' = writeFile(fs, uri, packJsonContent)
       /\ trace' = [trace EXCEPT ![i] =
            @ \o << Settled("writeFile", uri),
                    Issue("writeFile", joinPath(rootUri[i], appJsPath)) >>]
       /\ pc' = [pc EXCEPT ![i] = "writeAppJs"]
  /\ UNCHANGED << workspaceFolders, fs0, rootUri, folderIdx, outcome,
                  afterSuccess, fsAfterFirst >>

\* app.js written with the CommonJS bootstrap
WriteAppJsResolved_commonJs(i) == ResolveWriteAppJs(i, distAppJsContent)

\* src/extension.ts: writeFile(appJs, <ES-module bootstrap>)
WriteAppJsResolved(i) == ResolveWriteAppJs(i, appJsContent)

\* dist/extension.js: the for-of loop, then writeFile(appJs, ...)
DistCreateDirectoryResolved(i) ==
  ResolveCreateDirectory(i, "writeAppJs", appJsPath)

\* dist/extension.js: writeFile(appJs, <CommonJS bootstrap>)
DistWriteAppJsResolved(i) == ResolveWriteAppJs(i, distAppJsContent)

\* why the host may refuse the pending call
RejectionCauses(i) ==
  { "NoPermissions" } \cup
  ( IF pc[i] = "createDirectory" /\ DirectoryConflict(fs, PendingUri(i))
      THEN { "FileExists" } ELSE {} ) \cup
  ( IF pc[i] # "createDirectory" /\ FileConflict(fs, PendingUri(i))
      THEN { "FileIsADirectory" } ELSE {} )

\* the rejection caught and reported with a message
FsCallRejected_caught(i) ==
  /\ pc[i] \in { "createDirectory", "writePackJson", "writeAppJs" }
  /\ \E cause \in RejectionCauses(i) :
       trace' = [trace EXCEPT ![i] =
         @ \o << Rejected(PendingOp(i), PendingUri(i), cause),
                 Shown("error", errorMessage) >>]
  /\ pc' = [pc EXCEPT ![i] = "Idle"]
  /\ outcome' = [outcome EXCEPT ![i] = "FileSystemOperationFailed"]
  /\ UNCHANGED << workspaceFolders, fs, fs0, rootUri, folderIdx,
                  afterSuccess, fsAfterFirst >>

\* the awaited call rejects; there is no try/catch, so the handler's
\* promise rejects with the same error and nothing after the await runs
FsCallRejected(i) ==
  /\ pc[i] \in { "createDirectory", "writePackJson", "writeAppJs" }
  /\ \E cause \in RejectionCauses(i) :
       trace' = [trace EXCEPT ![i] =
         @ \o << Rejected(PendingOp(i), PendingUri(i), cause) >>]
  /\ pc' = [pc EXCEPT ![i] = "Idle"]
  /\ outcome' = [outcome EXCEPT ![i] = "FileSystemOperationFailed"]
  /\ UNCHANGED << workspaceFolders, fs, fs0, rootUri, folderIdx,
                  afterSuccess, fsAfterFirst >>

Next ==
  \E i \in Invocations :
    \/ Invoke(i)
    \/ CreateDirectoryResolved(i)
    \/ WritePackJsonResolved(i)
    \/ WriteAppJsResolved(i)
    \/ FsCallRejected(i)

Spec == Init /\ [][Next]_vars

\* the host settles every pending call, and runs a command that was invoked
Fairness ==
  \A i \in Invocations :
    WF_vars(Invoke(i) \/ CreateDirectoryResolved(i) \/ WritePackJsonResolved(i)
              \/ WriteAppJsResolved(i) \/ FsCallRejected(i))

FairSpec == Spec /\ Fairness

\* the handler of dist/extension.js in place of the one of src/extension.ts
NextDist ==
  \E i \in Invocations :
    \/ Invoke(i)
    \/ DistCreateDirectoryResolved(i)
    \/ DistWriteAppJsResolved(i)
    \/ FsCallRejected(i)

SpecDist == Init /\ [][NextDist]_vars

(* ------------------------- what the claims use ------------------------- *)

Returned(i) == pc[i] = "Idle"

HasRoot == workspaceFolders # undefined /\ Len(workspaceFolders) > 0

\* the first workspace root, R
R == workspaceFolders[1]

Messages(i) == SelectSeq(trace[i], LAMBDA e : e[1] = "show")

IssuedCalls(i) == SelectSeq(trace[i], LAMBDA e : e[1] = "issue")

SettledCalls(i) == SelectSeq(trace[i], LAMBDA e : e[1] = "settled")

RejectedCalls(i) == SelectSeq(trace[i], LAMBDA e : e[1] = "rejected")

SuccessShown == << "show", "information", "Node.js API structure created successfully" >>

ErrorShown == << "show", "error", "Please open a folder first" >>

\* the eight calls of the documented layout, in the documented order
DocumentedCalls ==
  << << "createDirectory", "src/controllers" >>,
     << "createDirectory", "src/routes" >>,
     << "createDirectory", "src/services" >>,
     << "createDirectory", "src/models" >>,
     << "createDirectory", "src/middlewares" >>,
     << "createDirectory", "src/utils" >>,
     << "writeFile", "src/package.json" >>,
     << "writeFile", "src/app.js" >> >>

DocumentedPaths == { DocumentedCalls[k][2] : k \in DOMAIN DocumentedCalls }

\* the entry a documented call leaves at its path
Produced(op, path) ==
  IF op = "createDirectory" THEN Dir
  ELSE IF path = "src/app.js" THEN File(appJsContent)
  ELSE File(packJsonContent)

\* file system f with the documented layout laid under root r
Layout(f, r) ==
  [u \in Uris |->
     IF u[1] = r /\ u[2] \in DocumentedPaths
       THEN Produced(IF u[2] \in { "src/app.js", "src/package.json" }
                       THEN "writeFile" ELSE "createDirectory", u[2])
       ELSE f[u]]

\* the trace of an invocation on root r in which nothing fails
RECURSIVE CallEvents(_, _)
CallEvents(r, n) ==
  IF n = 0 THEN << >>
  ELSE CallEvents(r, n - 1) \o
         << << "issue", DocumentedCalls[n][1], << r, DocumentedCalls[n][2] >> >>,
            << "settled", DocumentedCalls[n][1], << r, DocumentedCalls[n][2] >> >> >>

FullTrace(r) == CallEvents(r, Len(DocumentedCalls)) \o << SuccessShown >>

ExistenceCauses == { "FileExists", "FileIsADirectory" }

(* ------------------------------- claims -------------------------------- *)

\* C1: when the workspace-root list is absent or empty, a returned invocation
\* has issued no file-system call, has shown exactly the error message
\* "Please open a folder first" and nothing else, and has ended normally.
C1_NoWorkspaceShowsError ==
  \A i \in Invocations :
    ( Returned(i) /\ (workspaceFolders = undefined \/ workspaceFolders = << >>) ) =>
      /\ trace[i] = << ErrorShown >>
      /\ outcome[i] = "NoWorkspaceOpen"
      /\ fs = fs0

\* C2: with a non-empty root list and no failing call, when the invocation
\* has ended the six directories exist under R, app.js and package.json hold
\* exactly the templates, and exactly the success message has been shown.
C2_HappyPath ==
  \A i \in Invocations :
    ( HasRoot /\ Returned(i) /\ RejectedCalls(i) = << >> ) =>
      /\ \A p \in { "src/controllers", "src/routes", "src/services",
                    "src/models", "src/middlewares", "src/utils" } :
           fs[<< R, p >>] = Dir
      /\ fs[<< R, "src/app.js" >>] = File(appJsContent)
      /\ fs[<< R, "src/package.json" >>] = File(packJsonContent)
      /\ Messages(i) = << SuccessShown >>

C2_Witness ==
  \E i \in Invocations :
    /\ HasRoot /\ Returned(i) /\ RejectedCalls(i) = << >>
    /\ \A p \in DocumentedPaths : fs0[<< R, p >>] = Absent
    /\ Len(SettledCalls(i)) = 8

\* C3: every call of every invocation targets one of the eight fixed paths
\* under the first root, and every other path (under the first root or under
\* any other root) is as it was before the first invocation.
C3_OnlyFirstRoot ==
  LET targets == IF HasRoot THEN { << R, p >> : p \in DocumentedPaths } ELSE {}
  IN  /\ \A i \in Invocations : \A k \in DOMAIN trace[i] :
           trace[i][k][1] \in { "issue", "settled", "rejected" } =>
             trace[i][k][3] \in targets
      /\ \A u \in Uris \ targets : fs[u] = fs0[u]

C3_Witness ==
  /\ workspaceFolders # undefined
  /\ Len(workspaceFolders) = 2
  /\ \E i \in Invocations : outcome[i] = "success"
  /\ \E u \in Uris : u[1] = workspaceFolders[2] /\ fs0[u] # Absent

\* C4: an invocation that was invoked after another had succeeded, and that
\* succeeds itself, leaves the file system as the first success left it; no
\* call of it is refused because a directory or file exists already; and
\* each invocation that succeeded has shown exactly one message.
C4_Idempotent ==
  \A j \in Invocations :
    afterSuccess[j] =>
      /\ outcome[j] = "success" => fs = fsAfterFirst
      /\ \A k \in DOMAIN trace[j] :
           trace[j][k][1] = "rejected" => trace[j][k][4] \notin ExistenceCauses
      /\ Len(Messages(j)) <= 1
      /\ \A i \in Invocations :
           outcome[i] = "success" => Messages(i) = << SuccessShown >>

C4_Witness ==
  \E j \in Invocations :
    /\ afterSuccess[j]
    /\ outcome[j] = "success"
    /\ fs # fs0
    /\ \E i \in Invocations : i # j /\ outcome[i] = "success"

\* C5: if app.js or package.json existed before the invocation with content
\* other than the template, then after a successful invocation it holds
\* exactly the template, and the invocation has run its eight calls and
\* shown the success message, as on an empty root.
C5_Overwrite ==
  \A i \in Invocations : \A p \in { "src/app.js", "src/package.json" } :
    ( /\ outcome[i] = "success"
      /\ fs0[<< R, p >>][1] = "file"
      /\ fs0[<< R, p >>] # Produced("writeFile", p) ) =>
        /\ fs[<< R, p >>] = Produced("writeFile", p)
        /\ trace[i] = FullTrace(R)

C5_Witness ==
  \E i \in Invocations :
    /\ outcome[i] = "success"
    /\ fs0[<< R, "src/app.js" >>] = File(userContent)
    /\ fs[<< R, "src/app.js" >>] = File(appJsContent)

\* C6: the events of an invocation follow the fixed order: each call is
\* issued only when the one before it has settled, the six createDirectory
\* calls in the listed order, then package.json, then app.js, then the
\* success message; a rejected call is the last event.
C6_FixedOrder ==
  \A i \in Invocations :
    HasRoot =>
      LET full == FullTrace(R)
          t == trace[i]
          n == Len(t)
      IN  \/ n <= Len(full) /\ t = SubSeq(full, 1, n)
          \/ /\ n >= 2
             /\ n - 1 <= Len(full)
             /\ SubSeq(t, 1, n - 1) = SubSeq(full, 1, n - 1)
             /\ t[n - 1][1] = "issue"
             /\ t[n][1] = "rejected"
             /\ t[n][2] = t[n - 1][2]
             /\ t[n][3] = t[n - 1][3]

C6_Witness ==
  \E i \in Invocations :
    /\ HasRoot
    /\ outcome[i] = "success"
    /\ Len(trace[i]) = 17

\* C7: when the k-th call of an invocation has been rejected, the rejection
\* is the last event of the invocation, no message has been shown, the
\* handler has ended with the failure, and what calls 1 .. k-1 produced is
\* on disk as written.
C7_FailureStops ==
  \A i \in Invocations :
    RejectedCalls(i) # << >> =>
      /\ Len(RejectedCalls(i)) = 1
      /\ trace[i][Len(trace[i])][1] = "rejected"
      /\ Len(IssuedCalls(i)) = Len(SettledCalls(i)) + 1
      /\ Messages(i) = << >>
      /\ pc[i] = "Idle"
      /\ outcome[i] = "FileSystemOperationFailed"
      /\ \A k \in DOMAIN trace[i] :
           trace[i][k][1] = "settled" =>
             fs[trace[i][k][3]] = Produced(trace[i][k][2], trace[i][k][3][2])

C7_Witness ==
  \E i \in Invocations :
    /\ RejectedCalls(i) # << >>
    /\ Len(SettledCalls(i)) = 7
    /\ fs[<< R, "src/app.js" >>] = Absent

\* C8: an invocation that has returned is in one of three outcomes: the
\* error message alone and no call; all eight calls settled and the success
\* message alone; or a rejected file-system call and no message.  No
\* invocation has shown more than one message or any other text.
C8_ThreeOutcomes ==
  \A i \in Invocations :
    /\ Returned(i) =>
         \/ trace[i] = << ErrorShown >>
         \/ HasRoot /\ trace[i] = FullTrace(R)
         \/ RejectedCalls(i) # << >> /\ Messages(i) = << >>
    /\ Len(Messages(i)) <= 1
    /\ \A k \in DOMAIN Messages(i) : Messages(i)[k] \in { ErrorShown, SuccessShown }

\* C8, the part about termination: every invocation that was invoked returns.
C8_EventuallyReturns ==
  \A i \in Invocations : (pc[i] # "NotStarted") ~> Returned(i)

\* C9: a successful invocation of the compiled handler leaves the documented
\* layout, as the handler of src/extension.ts does.
C9_DistLayout ==
  \A i \in Invocations :
    outcome[i] = "success" => fs = Layout(fs0, R)

\* C10: when two invocations overlap (neither was invoked after a success),
\* and both succeed, the file system is the one a single invocation leaves,
\* each has shown the success message once, right after its own write of
\* app.js settled; and no call of either is refused for an entry that was
\* not there before the first invocation.
C10_Overlap ==
  \A i, j \in Invocations :
    ( i # j /\ ~ afterSuccess[i] /\ ~ afterSuccess[j]
      /\ pc[i] # "NotStarted" /\ pc[j] # "NotStarted" ) =>
        /\ ( outcome[i] = "success" /\ outcome[j] = "success" ) =>
             /\ fs = Layout(fs0, R)
             /\ Messages(i) = << SuccessShown >>
             /\ Messages(j) = << SuccessShown >>
        /\ \A k \in DOMAIN trace[i] :
             /\ trace[i][k] = SuccessShown =>
                  /\ k > 1
                  /\ trace[i][k - 1] = << "settled", "writeFile", << R, "src/app.js" >> >>
             /\ ( trace[i][k][1] = "rejected" /\ trace[i][k][4] \in ExistenceCauses ) =>
                  fs0[trace[i][k][3]][1] =
                    ( IF trace[i][k][2] = "createDirectory" THEN "file" ELSE "dir" )

C10_Witness ==
  \E i, j \in Invocations :
    /\ i # j /\ ~ afterSuccess[i] /\ ~ afterSuccess[j]
    /\ outcome[i] = "success" /\ outcome[j] = "success"
    /\ fs0[<< R, "src/package.json" >>] = File(userContent)

====
